---- MODULE Spec2Model ----
(***************************************************************************)
(* State-machine model of the USBTMC session engine of rusb-usbtmc         *)
(* (src/src/handle.rs): InstrumentHandle, its control requests (clear,     *)
(* pulse, read_stb, get_capabilities), the bulk operations (write_raw,     *)
(* read_raw, ask_raw), the setters, connect and Drop.                      *)
(*                                                                         *)
(* Every USB transfer is one step.  The device and the transport are the   *)
(* environment: each transfer either fails (rusb error) or returns a       *)
(* response drawn from a small set.                                        *)
(***************************************************************************)
EXTENDS Integers, Sequences, FiniteSets, TLC

VARIABLES
    b_tag,                  \* InstrumentHandle.b_tag (u8)
    max_transfer_size,      \* InstrumentHandle.max_transfer_size (u32)
    term_char,              \* InstrumentHandle.term_char: <<>> is None, <<c>> is Some(c)
    usbtmc_capabilities,    \* [term_char, pulse]
    usb488_capabilities,    \* <<>> is None, <<[scpi |-> b]>> is Some
    scpi_id,                \* <<>> is None, <<s>> is Some(s)
    restore_config,         \* <<>> is None, <<c>> is Some(c)
    reattach_kernel_driver, \* Vec<u8>
    dev,                    \* the device the session talks to (environment, fixed)
    pc,                     \* position in the running operation
    op,                     \* the public operation in progress / last run
    arg,                    \* its argument (input bytes, requested size, terminator)
    end_offset,             \* write_raw: end_offset
    read_data,              \* read_raw: accumulator
    ticks,                  \* read_stb: elapsed 100 ms sleeps
    message_available,      \* read_stb: message_available
    result,                 \* outcome of the last finished operation
    ret_val,                \* value returned with Ok
    log,                    \* transfers issued by the current public operation
    req_tag,                \* tag embedded in the latest control/bulk request, <<>> before the first
    prev_req_tag,           \* tag embedded in the request before it
    tag_before,             \* b_tag when the current public operation started
    data,                   \* write_raw / ask_raw: the input bytes
    old_config,             \* connect: old_config
    iter,                   \* connect: <<config, interface>> of the detach loop
    kernel_active,          \* interfaces whose kernel driver is attached (environment)
    scope                   \* which input sets the environment draws from (fixed)

sess == <<b_tag, max_transfer_size, term_char, usbtmc_capabilities,
          usb488_capabilities, scpi_id, restore_config, reattach_kernel_driver>>
conn == <<old_config, iter, kernel_active>>
locals == <<end_offset, read_data, ticks, message_available>>
tags == <<req_tag, prev_req_tag>>
fixed == <<dev, scope>>

vars == <<b_tag, max_transfer_size, term_char, usbtmc_capabilities,
          usb488_capabilities, scpi_id, restore_config, reattach_kernel_driver,
          dev, pc, op, arg, end_offset, read_data, ticks, message_available,
          result, ret_val, log, req_tag, prev_req_tag, tag_before,
          data, old_config, iter, kernel_active, scope>>

(***************************************************************************)
(* Bounds of the model.                                                    *)
(***************************************************************************)
MaxLen == 3        \* longest input handed to write_raw / ask_raw
MaxXfer == 2       \* largest value given to set_max_transfer_size
MaxPending == 2    \* most "pending" answers to CHECK_CLEAR_STATUS in one clear
MaxChunks == 2     \* most bulk-in chunks of one device message
MaxTicks == 2      \* longest read_stb deadline given by the caller, in 100 ms sleeps
MaxRequests == 8   \* scope "full": no new operation starts once b_tag reached this

(***************************************************************************)
(* Program constants.                                                      *)
(***************************************************************************)
DefaultMaxTransferSize == 1048576
HEADER_SIZE == 12

None == <<>>
Some(x) == <<x>>

Min(a, b) == IF a < b THEN a ELSE b

RECURSIVE Flatten(_)
Flatten(ss) == IF ss = <<>> THEN <<>> ELSE Head(ss) \o Flatten(Tail(ss))

(***************************************************************************)
(* Log entries, one per transfer or transport call: its kind, the request  *)
(* or the outcome, the tag it carries, the bytes sent or received, the     *)
(* end-of-message flag and a count (bytes written, declared size, -1 for a *)
(* failed transfer).  read_stb logs its status requests without the        *)
(* responses.                                                              *)
(***************************************************************************)
Ev(k, req, tag, payload, eom, n) ==
    [k |-> k, req |-> req, tag |-> tag, payload |-> payload, eom |-> eom, n |-> n]

Sel(k) == SelectSeq(log, LAMBDA e : e.k = k)
SelReq(r) == SelectSeq(log, LAMBDA e : e.req = r)

(***************************************************************************)
(* The class module (status codes, codec, capability parsing).             *)
(***************************************************************************)
STATUS_SUCCESS == 1
STATUS_PENDING == 2
STATUS_FAILED == 128

\* Status::from_byte: the status a response byte stands for.
StatusOf(byte) ==
    CASE byte = STATUS_SUCCESS -> "Success"
      [] byte = STATUS_PENDING -> "Pending"
      [] byte = STATUS_FAILED -> "Failed"
      [] OTHER -> "Illegal"

\* ControlRequest::read_response_status: parse the first byte as a status.
read_response_status(out) ==
    IF Len(out) = 0 THEN [err |-> "TruncatedControlResponse", status |-> "Illegal"]
    ELSE IF StatusOf(out[1]) = "Illegal" THEN [err |-> "IllegalStatus", status |-> "Illegal"]
    ELSE [err |-> "Ok", status |-> StatusOf(out[1])]

\* Status::check: only success passes.
StatusCheck(status) == IF status = "Success" THEN "Ok" ELSE "UnexpectedStatus"

\* ControlRequest::check_response_status: the status must be success.
check_response_status(out) ==
    LET r == read_response_status(out)
    IN  IF r.err # "Ok" THEN r.err ELSE StatusCheck(r.status)

Pad4(n) == (4 - (n % 4)) % 4

\* DevDepMsgOutHeader::encode_message: header, payload, alignment padding.
DevDepMsgOut_encode(tag, payload, eom) ==
    [msg |-> "DevDepMsgOut", tag |-> tag, tag_inv |-> 255 - tag,
     size |-> Len(payload), eom |-> eom, payload |-> payload,
     len |-> HEADER_SIZE + Len(payload) + Pad4(Len(payload))]

\* RequestDevDepMsgInHeader::encode_message: the fixed-size IN-request header.
RequestDevDepMsgIn_encode(tag, size, term) ==
    [msg |-> "RequestDevDepMsgIn", tag |-> tag, tag_inv |-> 255 - tag,
     size |-> size, eom |-> term # None, payload |-> term,
     len |-> HEADER_SIZE]

\* A bulk-in buffer: hlen header bytes present, the header's fields, and the
\* bytes that follow the header (payload and padding).
InBuf(hlen, tag, tag_inv, size, eom, body) ==
    [hlen |-> hlen, tag |-> tag, tag_inv |-> tag_inv, size |-> size,
     eom |-> eom, body |-> body]

\* DevDepMsgInHeader::decode_transfer.
decode_transfer(buf) ==
    IF buf.hlen < HEADER_SIZE THEN [err |-> "TruncatedHeader", eom |-> FALSE, data |-> <<>>]
    ELSE IF buf.tag_inv # 255 - buf.tag THEN [err |-> "TagCheckFailure", eom |-> FALSE, data |-> <<>>]
    ELSE IF buf.size > Len(buf.body) THEN [err |-> "TruncatedResponse", eom |-> FALSE, data |-> <<>>]
    ELSE [err |-> "Ok", eom |-> buf.eom, data |-> SubSeq(buf.body, 1, buf.size)]

\* USBTMCCapabilities::new
USBTMCCapabilities_new == [term_char |-> FALSE, pulse |-> FALSE]

\* USBTMCCapabilities::parse: a block of blen bytes carrying the flag bits.
CAPS_MIN_LEN == 6
CAPS_488_MIN_LEN == 16
USBTMCCapabilities_parse(block) ==
    IF block.blen < CAPS_MIN_LEN THEN [err |-> "InvalidCapabilities", caps |-> USBTMCCapabilities_new]
    ELSE [err |-> "Ok", caps |-> [term_char |-> block.term_char, pulse |-> block.pulse]]

\* USB488Capabilities::parse
USB488Capabilities_parse(block) ==
    IF block.blen < CAPS_488_MIN_LEN THEN [err |-> "InvalidCapabilities", caps |-> None]
    ELSE [err |-> "Ok", caps |-> Some([scpi |-> block.scpi])]

\* String::from_utf8 on the bytes the model uses (ASCII is valid, 0x80.. alone is not).
IsUtf8(bytes) == \A i \in 1..Len(bytes) : bytes[i] < 128

IsSpace(b) == b \in {9, 10, 11, 12, 13, 32}
RECURSIVE TrimStart(_)
TrimStart(s) == IF s # <<>> /\ IsSpace(Head(s)) THEN TrimStart(Tail(s)) ELSE s
RECURSIVE TrimEnd(_)
TrimEnd(s) == IF s # <<>> /\ IsSpace(s[Len(s)]) THEN TrimEnd(SubSeq(s, 1, Len(s) - 1)) ELSE s
\* str::trim
Trim(s) == TrimEnd(TrimStart(s))

(***************************************************************************)
(* The environment: devices, inputs of the public operations, responses.   *)
(***************************************************************************)
Device(ncfg, nif, active, target, drivers, detach, proto, blen, tc, pulse, scpi) ==
    [num_configurations |-> ncfg, num_interfaces |-> nif,
     active_config |-> active, target_config |-> target,
     drivers |-> drivers, supports_detach |-> detach,
     interface_protocol |-> proto,
     capabilities |-> [blen |-> blen, term_char |-> tc, pulse |-> pulse, scpi |-> scpi]]

\* A USB488 SCPI instrument with every feature, one held by a kernel driver and
\* in another configuration, a plain USBTMC device without features, and one
\* answering GET_CAPABILITIES with a short block.
Devices(sc) ==
    IF sc = "cycle"
    THEN { Device(1, 1, 1, 1, {}, TRUE, 1, 24, TRUE, TRUE, TRUE) }
    ELSE { Device(1, 1, 1, 1, {}, TRUE, 1, 24, TRUE, TRUE, TRUE),
           Device(2, 2, 2, 1, {0, 1}, TRUE, 1, 24, TRUE, FALSE, FALSE),
           Device(1, 1, 0, 1, {0}, FALSE, 0, 24, FALSE, FALSE, FALSE),
           Device(1, 1, 1, 1, {}, TRUE, 1, 8, FALSE, TRUE, TRUE) }

Prefix(n) == [i \in 1..n |-> i]
DataInputs(sc) == IF sc = "cycle" THEN {Prefix(2)} ELSE {Prefix(n) : n \in 0..MaxLen}
XferSizes(sc) == IF sc = "cycle" THEN {1} ELSE 0..MaxXfer
ReadSizes(sc) == IF sc = "cycle" THEN {None} ELSE {None} \cup {Some(s) : s \in 0..MaxXfer}
TermArgs == {None, Some(0), Some(10)}
StbTimeouts == {None} \cup {Some(t) : t \in 0..MaxTicks}
DevPayloads(sc) == IF sc = "cycle" THEN {<<65>>} ELSE {<<>>, <<65>>, <<66, 10>>}
StatusBytes == {STATUS_SUCCESS, STATUS_PENDING, STATUS_FAILED, 0}
\* what read_control leaves in `out`: nothing (size 0) or a status byte first
ControlOuts == {<<>>} \cup {<<b>> : b \in StatusBytes}

IDN == <<42, 73, 68, 78, 63>>     \* "*IDN?"

(***************************************************************************)
(* Initial state: connect is about to open the device; the fields hold     *)
(* the values the struct literal of connect gives them.                    *)
(***************************************************************************)
InitFor(sc) ==
    /\ scope = sc
    /\ dev \in Devices(sc)
    /\ b_tag = 0
    /\ max_transfer_size = DefaultMaxTransferSize
    /\ term_char = None
    /\ usbtmc_capabilities = USBTMCCapabilities_new
    /\ usb488_capabilities = None
    /\ scpi_id = None
    /\ restore_config = None
    /\ reattach_kernel_driver = <<>>
    /\ pc = "connect_open"
    /\ op = "connect"
    /\ arg = None
    /\ data = <<>>
    /\ end_offset = 0
    /\ read_data = <<>>
    /\ ticks = 0
    /\ message_available = FALSE
    /\ result = "running"
    /\ ret_val = None
    /\ log = <<>>
    /\ req_tag = None
    /\ prev_req_tag = None
    /\ tag_before = 0
    /\ old_config = 0
    /\ iter = <<0, 0>>
    /\ kernel_active = dev.drivers

Init == InitFor("full")
InitCycle == InitFor("cycle")

(***************************************************************************)
(* The tag.                                                                *)
(***************************************************************************)
incr_b_tag_same(t) == IF t > 127 \/ t < 2 THEN 2 ELSE t

\* incr_b_tag: the value it stores into b_tag
incr_b_tag(t) == IF t > 127 \/ t < 2 THEN 2 ELSE t + 1

\* A request: advance the tag, then issue the transfer carrying the new tag.
Issue(k, req, payload, eom, n) ==
    /\ b_tag' = incr_b_tag(b_tag)
    /\ log' = Append(log, Ev(k, req, b_tag', payload, eom, n))
    /\ prev_req_tag' = req_tag
    /\ req_tag' = Some(b_tag')

Outcome(ok) == IF ok THEN "Ok" ELSE "Rusb"

\* A transport call that carries no tag.
Call(k, req, n) ==
    /\ log' = Append(log, Ev(k, req, 0, <<>>, FALSE, n))
    /\ UNCHANGED <<b_tag, req_tag, prev_req_tag>>

(***************************************************************************)
(* Returning from an operation.                                            *)
(***************************************************************************)
\* a public operation of an established session returns
Finish(res, val) ==
    /\ result' = res
    /\ ret_val' = val
    /\ pc' = "idle"

\* connect returns an error: the handle it built is dropped
ConnectFail(res) ==
    /\ result' = res
    /\ ret_val' = None
    /\ pc' = "drop"

\* a call starts with fresh locals
ResetLocals ==
    /\ data' = <<>>
    /\ end_offset' = 0
    /\ read_data' = <<>>
    /\ ticks' = 0
    /\ message_available' = FALSE

\* the public operations start from an established, idle session
Start(o, a, d, entry) ==
    /\ pc = "idle"
    /\ scope = "full" => b_tag < MaxRequests
    /\ op' = o
    /\ arg' = a
    /\ data' = d
    /\ pc' = entry
    /\ log' = <<>>
    /\ tag_before' = b_tag
    /\ end_offset' = 0
    /\ read_data' = <<>>
    /\ ticks' = 0
    /\ message_available' = FALSE
    /\ result' = "running"
    /\ ret_val' = None
    /\ UNCHANGED <<sess, conn, tags, fixed>>

(***************************************************************************)
(* The setters.                                                            *)
(***************************************************************************)
set_max_transfer_size ==
    \E v \in XferSizes(scope) :
        /\ pc = "idle"
        /\ max_transfer_size' = v
        /\ op' = "set_max_transfer_size"
        /\ arg' = Some(v)
        /\ result' = "Ok"
        /\ ret_val' = None
        /\ log' = <<>>
        /\ tag_before' = b_tag
        /\ ResetLocals
        /\ UNCHANGED <<b_tag, term_char, usbtmc_capabilities, usb488_capabilities,
                       scpi_id, restore_config, reattach_kernel_driver,
                       pc, conn, tags, fixed>>

set_term_char_nocaps(tc, caps) ==
    IF tc = Some(0) THEN "InvalidTermChar" ELSE "Ok"

\* set_term_char: the result of the two checks
set_term_char_result(tc, caps) ==
    IF tc = Some(0) THEN "InvalidTermChar"
    ELSE IF tc # None /\ ~caps.term_char THEN "UnsupportedFeature"
    ELSE "Ok"

set_term_char ==
    \E tc \in TermArgs :
        /\ pc = "idle"
        /\ result' = set_term_char_result(tc, usbtmc_capabilities)
        /\ term_char' = IF result' = "Ok" THEN tc ELSE term_char
        /\ op' = "set_term_char"
        /\ arg' = tc
        /\ ret_val' = None
        /\ log' = <<>>
        /\ tag_before' = b_tag
        /\ ResetLocals
        /\ UNCHANGED <<b_tag, max_transfer_size, usbtmc_capabilities,
                       usb488_capabilities, scpi_id, restore_config,
                       reattach_kernel_driver, pc, conn, tags, fixed>>

(***************************************************************************)
(* clear                                                                   *)
(***************************************************************************)
clear == Start("clear", None, <<>>, "clear_initiate")

\* clear returns: to the caller, or into connect
ClearReturn(res) ==
    IF op = "connect"
    THEN IF res = "Ok"
         THEN pc' = "connect_caps" /\ UNCHANGED <<result, ret_val>>
         ELSE ConnectFail(res)
    ELSE Finish(res, None)

clear_initiate_check_pending_ok(out) ==
    IF read_response_status(out).status = "Pending" THEN "Ok"
    ELSE check_response_status(out)

\* ControlRequest::check_response_status(&out)? on the INITIATE_CLEAR response
clear_initiate_check(out) == check_response_status(out)

\* INITIATE_CLEAR and the check of its status
clear_initiate ==
    /\ pc = "clear_initiate"
    /\ \/ /\ Issue("ctrl", "InitiateClear", <<>>, FALSE, -1)
          /\ ClearReturn("Rusb")
       \/ \E out \in ControlOuts :
            LET e == clear_initiate_check(out)
            IN  /\ Issue("ctrl", "InitiateClear", out, FALSE, Len(out))
                /\ IF e # "Ok" THEN ClearReturn(e)
                   ELSE pc' = "clear_poll" /\ UNCHANGED <<result, ret_val>>
    /\ UNCHANGED <<max_transfer_size, term_char, usbtmc_capabilities,
                   usb488_capabilities, scpi_id, restore_config,
                   reattach_kernel_driver, op, arg, data, locals, conn, fixed,
                   tag_before>>

\* what one iteration of the poll loop does with the status it read
clear_poll_next_break_unless_pending(r) ==
    IF r.err # "Ok" THEN r.err
    ELSE IF r.status = "Pending" THEN "again"
    ELSE "break"

clear_poll_next_no_retry(r) ==
    IF r.err # "Ok" THEN r.err
    ELSE IF r.status = "Success" THEN "break"
    ELSE StatusCheck(r.status)

\* the match on the polled status: break, poll again, or the status's error
clear_poll_next(r) ==
    IF r.err # "Ok" THEN r.err
    ELSE IF r.status = "Success" THEN "break"
    ELSE IF r.status = "Pending" THEN "again"
    ELSE StatusCheck(r.status)

\* one iteration of the loop: CHECK_CLEAR_STATUS, then break, sleep or fail
clear_poll ==
    /\ pc = "clear_poll"
    /\ \/ /\ Issue("ctrl", "CheckClearStatus", <<>>, FALSE, -1)
          /\ ClearReturn("Rusb")
       \/ \E out \in ControlOuts :
            LET nxt == clear_poll_next(read_response_status(out))
            IN  /\ nxt = "again" => Len(SelReq("CheckClearStatus")) < MaxPending
                /\ Issue("ctrl", "CheckClearStatus", out, FALSE, Len(out))
                /\ IF nxt = "break" THEN pc' = "clear_halt" /\ UNCHANGED <<result, ret_val>>
                   ELSE IF nxt = "again" THEN pc' = "clear_poll" /\ UNCHANGED <<result, ret_val>>
                   ELSE ClearReturn(nxt)
    /\ UNCHANGED <<max_transfer_size, term_char, usbtmc_capabilities,
                   usb488_capabilities, scpi_id, restore_config,
                   reattach_kernel_driver, op, arg, data, locals, conn, fixed,
                   tag_before>>

\* clear_halt on the bulk-out endpoint, the last step of clear
clear_halt ==
    /\ pc = "clear_halt"
    /\ \E ok \in BOOLEAN :
        /\ Call("clear_halt", Outcome(ok), 0)
        /\ ClearReturn(IF ok THEN "Ok" ELSE "Rusb")
    /\ UNCHANGED <<max_transfer_size, term_char, usbtmc_capabilities,
                   usb488_capabilities, scpi_id, restore_config,
                   reattach_kernel_driver, op, arg, data, locals, conn, fixed,
                   tag_before>>

(***************************************************************************)
(* pulse                                                                   *)
(***************************************************************************)
pulse == Start("pulse", None, <<>>, "pulse")

pulse_body_unchecked ==
    /\ pc = "pulse"
    /\ \/ /\ Issue("ctrl", "IndicatorPulse", <<>>, FALSE, -1)
          /\ Finish("Rusb", None)
       \/ \E out \in ControlOuts :
            /\ Issue("ctrl", "IndicatorPulse", out, FALSE, Len(out))
            /\ Finish(check_response_status(out), None)
    /\ UNCHANGED <<max_transfer_size, term_char, usbtmc_capabilities,
                   usb488_capabilities, scpi_id, restore_config,
                   reattach_kernel_driver, op, arg, data, locals, conn, fixed,
                   tag_before>>

\* the body of pulse: the capability gate, then INDICATOR_PULSE
pulse_body ==
    /\ pc = "pulse"
    /\ IF ~usbtmc_capabilities.pulse
       THEN /\ Finish("UnsupportedFeature", None)
            /\ UNCHANGED <<b_tag, log, tags>>
       ELSE \/ /\ Issue("ctrl", "IndicatorPulse", <<>>, FALSE, -1)
               /\ Finish("Rusb", None)
            \/ \E out \in ControlOuts :
                 /\ Issue("ctrl", "IndicatorPulse", out, FALSE, Len(out))
                 /\ Finish(check_response_status(out), None)
    /\ UNCHANGED <<max_transfer_size, term_char, usbtmc_capabilities,
                   usb488_capabilities, scpi_id, restore_config,
                   reattach_kernel_driver, op, arg, data, locals, conn, fixed,
                   tag_before>>

(***************************************************************************)
(* write_raw                                                               *)
(***************************************************************************)
write_raw == \E d \in DataInputs(scope) : Start("write_raw", None, d, "write_raw")

\* data.chunks(m): the block that starts at offset off
chunk_at(d, off, m) == SubSeq(d, off + 1, Min(off + m, Len(d)))

is_eom_first(end, n) == end <= n

\* eom = end_offset >= data.len()
is_eom(end, n) == end >= n

\* the bytes handed to encode_message for a block: the code passes `data`
encoded_payload(d, block) == d

never_truncated(n_written, block_len) == n_written < 0

\* n_written < block.len()
is_truncated(n_written, block_len) == n_written < block_len

\* the byte counts a successful write_bulk reports for a block and its buffer
WrittenChoices(block_len, buf_len) == {block_len - 1, block_len, buf_len}

WriteReturn_ignore_error(res) ==
    IF op \in {"ask_raw", "connect"}
    THEN pc' = "read_req" /\ UNCHANGED <<result, ret_val>>
    ELSE Finish(res, None)

\* write_raw returns: to the caller, into the read half of ask_raw, or into
\* connect, where a failed "*IDN?" is not fatal
WriteReturn(res) ==
    IF res = "Ok" /\ op \in {"ask_raw", "connect"}
    THEN pc' = "read_req" /\ UNCHANGED <<result, ret_val>>
    ELSE IF op = "connect"
    THEN result' = "Ok" /\ ret_val' = None /\ pc' = "idle"
    ELSE Finish(res, None)

\* entering write_raw: data.chunks(max_transfer_size) panics on a chunk size of 0
write_raw_enter ==
    /\ pc = "write_raw"
    /\ IF max_transfer_size = 0
       THEN result' = "panic" /\ ret_val' = None /\ pc' = "drop"
       ELSE IF Len(data) = 0 THEN WriteReturn("Ok")
       ELSE pc' = "write_chunk" /\ UNCHANGED <<result, ret_val>>
    /\ end_offset' = 0
    /\ UNCHANGED <<sess, log, tags, op, arg, data, read_data, ticks,
                   message_available, conn, fixed, tag_before>>

\* one iteration of the chunk loop
write_chunk ==
    /\ pc = "write_chunk"
    /\ LET block == chunk_at(data, end_offset, max_transfer_size)
           end == end_offset + Len(block)
           eom == is_eom(end, Len(data))
           buf == DevDepMsgOut_encode(incr_b_tag(b_tag), encoded_payload(data, block), eom)
       IN  /\ end_offset' = end
           /\ \/ /\ Issue("bulk_out", buf.msg, buf.payload, buf.eom, -1)
                 /\ WriteReturn("Rusb")
              \/ \E n_written \in WrittenChoices(Len(block), buf.len) :
                    /\ Issue("bulk_out", buf.msg, buf.payload, buf.eom, n_written)
                    /\ IF is_truncated(n_written, Len(block))
                       THEN WriteReturn("TruncatedBulkOut")
                       ELSE IF end < Len(data)
                       THEN pc' = "write_chunk" /\ UNCHANGED <<result, ret_val>>
                       ELSE WriteReturn("Ok")
    /\ UNCHANGED <<max_transfer_size, term_char, usbtmc_capabilities,
                   usb488_capabilities, scpi_id, restore_config,
                   reattach_kernel_driver, op, arg, data, read_data, ticks,
                   message_available, conn, fixed, tag_before>>

(***************************************************************************)
(* read_raw                                                                *)
(***************************************************************************)
read_raw == \E sz \in ReadSizes(scope) : Start("read_raw", sz, <<>>, "read_req")

\* the clamp of the requested size to max_transfer_size
transfer_size(a, mts) == IF a # None /\ a[1] < mts THEN a[1] ELSE mts

\* read_raw returns: to the caller, or into connect, which keeps the trimmed
\* identification when the answer is valid UTF-8
ReadReturn(res, val) ==
    IF op = "connect"
    THEN /\ result' = "Ok"
         /\ ret_val' = None
         /\ pc' = "idle"
         /\ scpi_id' = IF res = "Ok" /\ IsUtf8(val) THEN Some(Trim(val)) ELSE scpi_id
    ELSE /\ Finish(res, IF res = "Ok" THEN val ELSE None)
         /\ UNCHANGED scpi_id

\* the bulk-out half of an iteration: the read request
read_req ==
    /\ pc = "read_req"
    /\ LET buf == RequestDevDepMsgIn_encode(incr_b_tag(b_tag),
                      transfer_size(arg, max_transfer_size), term_char)
       IN  \/ /\ Issue("bulk_out", buf.msg, buf.payload, FALSE, -1)
              /\ ReadReturn("Rusb", <<>>)
           \/ /\ Issue("bulk_out", buf.msg, buf.payload, FALSE, buf.size)
              /\ pc' = "read_resp"
              /\ UNCHANGED <<result, ret_val, scpi_id>>
    /\ UNCHANGED <<max_transfer_size, term_char, usbtmc_capabilities,
                   usb488_capabilities, restore_config,
                   reattach_kernel_driver, op, arg, data, locals, conn, fixed,
                   tag_before>>

\* what the device may put on the bulk-in endpoint for the request tagged t
\* asking for at most ts bytes
Responses(t, ts, sc) ==
    { InBuf(HEADER_SIZE, tg, 255 - tg, Len(p), e, p \o [i \in 1..Pad4(Len(p)) |-> 0]) :
        tg \in {t, IF t > 2 THEN t - 1 ELSE 127},
        p \in {q \in DevPayloads(sc) : Len(q) <= ts},
        e \in BOOLEAN }
    \cup { InBuf(4, t, 255 - t, 0, TRUE, <<>>),
           InBuf(HEADER_SIZE, t, t, 0, TRUE, <<>>),
           InBuf(HEADER_SIZE, t, 255 - t, 2, TRUE, <<65>>) }

read_continue_always(eom) == TRUE

\* the loop goes on unless header.is_eom()
read_continue(eom) == ~eom

accumulate_replace(acc, chunk) == chunk

\* read_data.extend_from_slice(data)
accumulate(acc, chunk) == acc \o chunk

read_resp_partial_on_error ==
    /\ pc = "read_resp"
    /\ \/ /\ Call("bulk_in", "Rusb", -1)
          /\ ReadReturn("Ok", read_data)
          /\ UNCHANGED read_data
       \/ \E buf \in Responses(b_tag, transfer_size(arg, max_transfer_size), scope) :
            LET d == decode_transfer(buf)
            IN  /\ ~buf.eom => Len(Sel("bulk_in")) + 1 < MaxChunks
                /\ log' = Append(log, Ev("bulk_in", d.err, buf.tag, buf.body, buf.eom, buf.size))
                /\ UNCHANGED <<b_tag, req_tag, prev_req_tag>>
                /\ IF d.err # "Ok"
                   THEN ReadReturn("Ok", read_data) /\ UNCHANGED read_data
                   ELSE /\ read_data' = accumulate(read_data, d.data)
                        /\ IF read_continue(d.eom)
                           THEN pc' = "read_req" /\ UNCHANGED <<result, ret_val, scpi_id>>
                           ELSE ReadReturn("Ok", read_data')
    /\ UNCHANGED <<max_transfer_size, term_char, usbtmc_capabilities,
                   usb488_capabilities, restore_config,
                   reattach_kernel_driver, op, arg, data, end_offset, ticks,
                   message_available, conn, fixed, tag_before>>

\* the bulk-in half: read, decode, append, stop at end-of-message
read_resp ==
    /\ pc = "read_resp"
    /\ \/ /\ Call("bulk_in", "Rusb", -1)
          /\ ReadReturn("Rusb", <<>>)
          /\ UNCHANGED read_data
       \/ \E buf \in Responses(b_tag, transfer_size(arg, max_transfer_size), scope) :
            LET d == decode_transfer(buf)
            IN  /\ ~buf.eom => Len(Sel("bulk_in")) + 1 < MaxChunks
                /\ log' = Append(log, Ev("bulk_in", d.err, buf.tag, buf.body, buf.eom, buf.size))
                /\ UNCHANGED <<b_tag, req_tag, prev_req_tag>>
                /\ IF d.err # "Ok"
                   THEN ReadReturn(d.err, <<>>) /\ UNCHANGED read_data
                   ELSE /\ read_data' = accumulate(read_data, d.data)
                        /\ IF read_continue(d.eom)
                           THEN pc' = "read_req" /\ UNCHANGED <<result, ret_val, scpi_id>>
                           ELSE ReadReturn("Ok", read_data')
    /\ UNCHANGED <<max_transfer_size, term_char, usbtmc_capabilities,
                   usb488_capabilities, restore_config,
                   reattach_kernel_driver, op, arg, data, end_offset, ticks,
                   message_available, conn, fixed, tag_before>>

(***************************************************************************)
(* ask_raw: write_raw(data)?, then read_raw(None)                          *)
(***************************************************************************)
ask_raw == \E d \in DataInputs(scope) : Start("ask_raw", None, d, "write_raw")

(***************************************************************************)
(* read_stb                                                                *)
(***************************************************************************)
DefaultStbTicks == 10

read_stb == \E t \in StbTimeouts : Start("read_stb", t, <<>>, "read_stb")

\* end_time, in sleeps after the start
deadline(a) == IF a = None THEN DefaultStbTicks ELSE a[1]

\* v & 16 != 0
bit16(v) == (v \div 16) % 2 = 1

\* the last byte of the two-byte buffer [0, 2] after n bytes were read into it
stb_last(resp) == IF Len(resp) >= 2 THEN resp[2] ELSE 2

InterruptReads == {<<>>, <<129, 0>>, <<129, 16>>}

\* the loop head and the status request of an iteration
read_stb_poll ==
    /\ pc = "read_stb"
    /\ IF ticks < deadline(arg) /\ ~message_available
       THEN /\ Issue("ctrl", "Tmc488ReadStatusByte", <<>>, FALSE, 3)
            /\ \/ Finish("Rusb", None) /\ UNCHANGED ticks
               \/ \E out \in ControlOuts :
                    IF check_response_status(out) = "Ok"
                    THEN pc' = "stb_interrupt" /\ UNCHANGED <<result, ret_val, ticks>>
                    ELSE /\ \E dt \in 1..2 : ticks' = ticks + dt
                         /\ UNCHANGED <<pc, result, ret_val>>
       ELSE /\ Finish("Ok", <<message_available>>)
            /\ UNCHANGED <<b_tag, log, tags, ticks>>
    /\ UNCHANGED <<max_transfer_size, term_char, usbtmc_capabilities,
                   usb488_capabilities, scpi_id, restore_config,
                   reattach_kernel_driver, op, arg, data, end_offset, read_data,
                   message_available, conn, fixed, tag_before>>

\* the interrupt read of an iteration (it carries no tag and is not logged),
\* the bit test and the sleep
read_stb_interrupt ==
    /\ pc = "stb_interrupt"
    /\ UNCHANGED <<b_tag, log, tags>>
    /\ \/ /\ Finish("Rusb", None)
          /\ UNCHANGED <<ticks, message_available>>
       \/ \E resp \in InterruptReads :
            /\ message_available' = bit16(stb_last(resp))
            /\ \E dt \in 1..2 : ticks' = ticks + dt
            /\ pc' = "read_stb"
            /\ UNCHANGED <<result, ret_val>>
    /\ UNCHANGED <<max_transfer_size, term_char, usbtmc_capabilities,
                   usb488_capabilities, scpi_id, restore_config,
                   reattach_kernel_driver, op, arg, data, end_offset, read_data,
                   conn, fixed, tag_before>>

(***************************************************************************)
(* connect                                                                 *)
(***************************************************************************)
\* instrument.device.open()?: without a device handle no session object exists
connect_open ==
    /\ pc = "connect_open"
    /\ \/ /\ Call("open", "Rusb", 0)
          /\ result' = "Rusb"
          /\ pc' = "no_session"
       \/ /\ Call("open", "Ok", 0)
          /\ pc' = "connect_config"
          /\ UNCHANGED result
    /\ UNCHANGED <<max_transfer_size, term_char, usbtmc_capabilities,
                   usb488_capabilities, scpi_id, restore_config,
                   reattach_kernel_driver, op, arg, data, locals, conn, fixed,
                   tag_before, ret_val>>

\* let old_config = usb.active_configuration()?
connect_config ==
    /\ pc = "connect_config"
    /\ \/ /\ Call("active_configuration", "Rusb", 0)
          /\ ConnectFail("Rusb")
          /\ UNCHANGED old_config
       \/ /\ Call("active_configuration", "Ok", dev.active_config)
          /\ old_config' = dev.active_config
          /\ pc' = IF dev.supports_detach THEN "connect_detach" ELSE "connect_old_desc"
          /\ UNCHANGED <<result, ret_val>>
    /\ UNCHANGED <<max_transfer_size, term_char, usbtmc_capabilities,
                   usb488_capabilities, scpi_id, restore_config,
                   reattach_kernel_driver, op, arg, data, locals, iter,
                   kernel_active, fixed, tag_before>>

\* the loop variable after interface i of configuration c
next_iter(c, i) == IF i + 1 < dev.num_interfaces THEN <<c, i + 1>> ELSE <<c + 1, 0>>

\* one interface of one configuration in the detach loop: a descriptor lookup
\* or the driver query fails, or the driver is inactive, or the interface is
\* recorded and then detached
connect_detach ==
    /\ pc = "connect_detach"
    /\ LET c == iter[1]
           i == iter[2]
       IN  IF c >= dev.num_configurations
           THEN /\ pc' = "connect_old_desc"
                /\ UNCHANGED <<log, result, ret_val, reattach_kernel_driver,
                               iter, kernel_active>>
           ELSE \/ /\ Call("kernel_driver_active", "Rusb", i)
                   /\ ConnectFail("Rusb")
                   /\ UNCHANGED <<reattach_kernel_driver, iter, kernel_active>>
                \/ /\ i \notin kernel_active
                   /\ Call("kernel_driver_active", "Ok", i)
                   /\ iter' = next_iter(c, i)
                   /\ UNCHANGED <<pc, result, ret_val, reattach_kernel_driver,
                                  kernel_active>>
                \/ /\ i \in kernel_active
                   /\ reattach_kernel_driver' = Append(reattach_kernel_driver, i)
                   /\ \/ /\ Call("detach_kernel_driver", "Rusb", i)
                         /\ ConnectFail("Rusb")
                         /\ UNCHANGED <<iter, kernel_active>>
                      \/ /\ Call("detach_kernel_driver", "Ok", i)
                         /\ kernel_active' = kernel_active \ {i}
                         /\ iter' = next_iter(c, i)
                         /\ UNCHANGED <<pc, result, ret_val>>
    /\ UNCHANGED <<b_tag, tags, max_transfer_size, term_char, usbtmc_capabilities,
                   usb488_capabilities, scpi_id, restore_config,
                   op, arg, data, locals, old_config, fixed, tag_before>>

\* the lookup of the old configuration's descriptor: only an error other than
\* NotFound matters
connect_old_desc ==
    /\ pc = "connect_old_desc"
    /\ IF old_config # 0
       THEN \/ /\ Call("config_descriptor", "Rusb", old_config)
               /\ ConnectFail("Rusb")
            \/ \E r \in {"Ok", "NotFound"} :
               /\ Call("config_descriptor", r, old_config)
               /\ pc' = "connect_set_config"
               /\ UNCHANGED <<result, ret_val>>
       ELSE /\ pc' = "connect_set_config"
            /\ UNCHANGED <<b_tag, log, tags, result, ret_val>>
    /\ UNCHANGED <<max_transfer_size, term_char, usbtmc_capabilities,
                   usb488_capabilities, scpi_id, restore_config,
                   reattach_kernel_driver, op, arg, data, locals, conn, fixed,
                   tag_before>>

\* switching to the instrument's configuration, remembering the old one
connect_set_config ==
    /\ pc = "connect_set_config"
    /\ IF old_config # dev.target_config
       THEN /\ restore_config' = Some(old_config)
            /\ \/ /\ Call("set_active_configuration", "Rusb", dev.target_config)
                  /\ ConnectFail("Rusb")
               \/ /\ Call("set_active_configuration", "Ok", dev.target_config)
                  /\ pc' = "connect_claim"
                  /\ UNCHANGED <<result, ret_val>>
       ELSE /\ pc' = "connect_claim"
            /\ UNCHANGED <<b_tag, log, tags, result, ret_val, restore_config>>
    /\ UNCHANGED <<max_transfer_size, term_char, usbtmc_capabilities,
                   usb488_capabilities, scpi_id,
                   reattach_kernel_driver, op, arg, data, locals, conn, fixed,
                   tag_before>>

\* usb.claim_interface(interface_number)?, then handle.clear()?
connect_claim ==
    /\ pc = "connect_claim"
    /\ \/ /\ Call("claim_interface", "Rusb", 0)
          /\ ConnectFail("Rusb")
       \/ /\ Call("claim_interface", "Ok", 0)
          /\ pc' = "clear_initiate"
          /\ UNCHANGED <<result, ret_val>>
    /\ UNCHANGED <<max_transfer_size, term_char, usbtmc_capabilities,
                   usb488_capabilities, scpi_id, restore_config,
                   reattach_kernel_driver, op, arg, data, locals, conn, fixed,
                   tag_before>>

\* get_capabilities: GET_CAPABILITIES, the USBTMC set, and for interface
\* protocol 1 the USB488 set
get_capabilities ==
    /\ pc = "connect_caps"
    /\ Issue("ctrl", "GetCapabilities", <<>>, FALSE, 64)
    /\ \/ /\ ConnectFail("Rusb")
          /\ UNCHANGED <<usbtmc_capabilities, usb488_capabilities>>
       \/ LET tmc == USBTMCCapabilities_parse(dev.capabilities)
              u488 == USB488Capabilities_parse(dev.capabilities)
          IN  IF tmc.err # "Ok"
              THEN /\ ConnectFail(tmc.err)
                   /\ UNCHANGED <<usbtmc_capabilities, usb488_capabilities>>
              ELSE /\ usbtmc_capabilities' = tmc.caps
                   /\ IF dev.interface_protocol = 1
                      THEN IF u488.err # "Ok"
                           THEN /\ ConnectFail(u488.err)
                                /\ UNCHANGED usb488_capabilities
                           ELSE /\ usb488_capabilities' = u488.caps
                                /\ pc' = "connect_idn"
                                /\ UNCHANGED <<result, ret_val>>
                      ELSE /\ pc' = "connect_idn"
                           /\ UNCHANGED <<result, ret_val, usb488_capabilities>>
    /\ UNCHANGED <<max_transfer_size, term_char, scpi_id, restore_config,
                   reattach_kernel_driver, op, arg, data, locals, conn, fixed,
                   tag_before>>

connect_idn_always ==
    /\ pc = "connect_idn"
    /\ data' = IDN
    /\ pc' = "write_raw"
    /\ UNCHANGED <<result, ret_val>>
    /\ UNCHANGED <<sess, log, tags, op, arg, locals, conn, fixed, tag_before>>

\* the opportunistic ask("*IDN?") of a SCPI instrument, or the end of connect
connect_idn ==
    /\ pc = "connect_idn"
    /\ IF usb488_capabilities # None /\ usb488_capabilities[1].scpi
       THEN /\ data' = IDN
            /\ pc' = "write_raw"
            /\ UNCHANGED <<result, ret_val>>
       ELSE /\ result' = "Ok"
            /\ ret_val' = None
            /\ pc' = "idle"
            /\ UNCHANGED data
    /\ UNCHANGED <<sess, log, tags, op, arg, locals, conn, fixed, tag_before>>

(***************************************************************************)
(* Drop: release the interface, restore the configuration, reattach the    *)
(* drivers; every result is discarded.  The object is gone afterwards.     *)
(***************************************************************************)
\* the calls of drop with their outcomes: att[j] is the outcome of the j-th
\* attach_kernel_driver
AllDropEvents(rel, cfg, att) ==
    <<Ev("release_interface", Outcome(rel), 0, <<>>, FALSE, 0)>>
    \o (IF restore_config # None
        THEN <<Ev("set_active_configuration", Outcome(cfg), 0, <<>>, FALSE, restore_config[1])>>
        ELSE <<>>)
    \o [j \in 1..Len(reattach_kernel_driver) |->
            Ev("attach_kernel_driver", Outcome(att[j]), 0, <<>>, FALSE, reattach_kernel_driver[j])]

DropEvents_stop_at_failure(rel, cfg, att) ==
    LET all == AllDropEvents(rel, cfg, att)
        bad == {k \in 1..Len(all) : all[k].req # "Ok"}
    IN  IF bad = {} THEN all
        ELSE SubSeq(all, 1, CHOOSE k \in bad : \A m \in bad : k <= m)

\* every result is dropped with `let _ =`: all the calls are made
DropEvents(rel, cfg, att) == AllDropEvents(rel, cfg, att)

Drop ==
    /\ pc \in {"idle", "drop"}
    /\ \E rel \in BOOLEAN, cfg \in BOOLEAN,
          att \in [1..Len(reattach_kernel_driver) -> BOOLEAN] :
        /\ restore_config = None => cfg
        /\ log' = (IF pc = "idle" THEN <<>> ELSE log) \o DropEvents(rel, cfg, att)
        /\ kernel_active' = kernel_active \cup
                               {reattach_kernel_driver[j] :
                                  j \in {k \in 1..Len(reattach_kernel_driver) : att[k]}}
    /\ pc' = "closed"
    /\ op' = IF pc = "idle" THEN "drop" ELSE op
    /\ result' = IF pc = "idle" THEN "Ok" ELSE result
    /\ b_tag' = 0
    /\ max_transfer_size' = DefaultMaxTransferSize
    /\ term_char' = None
    /\ usbtmc_capabilities' = USBTMCCapabilities_new
    /\ usb488_capabilities' = None
    /\ scpi_id' = None
    /\ restore_config' = None
    /\ reattach_kernel_driver' = <<>>
    /\ arg' = None
    /\ data' = <<>>
    /\ ret_val' = None
    /\ end_offset' = 0
    /\ read_data' = <<>>
    /\ ticks' = 0
    /\ message_available' = FALSE
    /\ tag_before' = 0
    /\ UNCHANGED <<tags, old_config, iter, fixed>>

(***************************************************************************)
(* The specifications.                                                     *)
(***************************************************************************)
Next ==
    \/ connect_open
    \/ connect_config
    \/ connect_detach
    \/ connect_old_desc
    \/ connect_set_config
    \/ connect_claim
    \/ get_capabilities
    \/ connect_idn
    \/ set_max_transfer_size
    \/ set_term_char
    \/ clear
    \/ clear_initiate
    \/ clear_poll
    \/ clear_halt
    \/ pulse
    \/ pulse_body
    \/ write_raw
    \/ write_raw_enter
    \/ write_chunk
    \/ read_raw
    \/ read_req
    \/ read_resp
    \/ ask_raw
    \/ read_stb
    \/ read_stb_poll
    \/ read_stb_interrupt
    \/ Drop

\* every input set, sessions of at most MaxRequests requests
Spec == Init /\ [][Next]_vars

\* one input per operation, sessions long enough for the tag to wrap
SpecCycle == InitCycle /\ [][Next]_vars

\* clear runs on the calling thread: each of its transfers returns, and the
\* next statement of the loop is then executed
SpecLive ==
    /\ Init /\ [][Next]_vars
    /\ WF_vars(clear_initiate) /\ WF_vars(clear_poll) /\ WF_vars(clear_halt)

(***************************************************************************)
(* Properties.                                                             *)
(***************************************************************************)
Tagged == SelectSeq(log, LAMBDA e : e.k \in {"ctrl", "bulk_out"})
MsgOuts == SelReq("DevDepMsgOut")
ReadReqs == SelReq("RequestDevDepMsgIn")
BulkIns == Sel("bulk_in")
Payloads(es) == [i \in 1..Len(es) |-> es[i].payload]
CeilDiv(n, m) == (n + m - 1) \div m

\* C1: the tag produced by every tag advance lies in 2..127 (so an advance
\* from 127 yields 2, and no advance yields 0, 1 or a value above 127).
C1_TagIn2To127 == req_tag # None => req_tag[1] \in 2..127

\* C2: control and bulk requests share one tag sequence: every tagged request
\* carries the tag the session holds after the advance made for it, that tag
\* is never 0 and never the tag of the request issued just before it.
C2_SharedTagSequence ==
    /\ req_tag # None => (req_tag[1] # 0 /\ req_tag # prev_req_tag)
    /\ \A i \in 1..Len(Tagged) :
          /\ Tagged[i].tag # 0
          /\ i < Len(Tagged) => Tagged[i + 1].tag # Tagged[i].tag
    /\ (Tagged # <<>> /\ pc # "closed") => Tagged[Len(Tagged)].tag = b_tag

\* the tag wraps between two bulk requests of one operation, in a session whose
\* earlier requests were control requests
C2_Witness ==
    /\ \E i \in 1..Len(Tagged) - 1 :
          /\ Tagged[i + 1].tag < Tagged[i].tag
          /\ Tagged[i].k = "bulk_out" /\ Tagged[i + 1].k = "bulk_out"
    /\ prev_req_tag # None

\* C3: every bulk-out transfer of write_raw carries at most max_transfer_size
\* payload bytes, and the payloads of a completed write_raw, concatenated in
\* order, are the input.
C3_ChunkedPayloads ==
    (op = "write_raw" /\ pc = "idle" /\ result = "Ok") =>
        /\ \A i \in 1..Len(MsgOuts) : Len(MsgOuts[i].payload) <= max_transfer_size
        /\ Flatten(Payloads(MsgOuts)) = data

\* C4: a write_raw of a non-empty input in which no transfer fails makes
\* exactly ceil(n/m) bulk-out transfers, with end-of-message set on the last
\* one and on no other.
C4_TransferCountAndEom ==
    (op = "write_raw" /\ pc = "idle" /\ result = "Ok" /\ Len(data) > 0) =>
        /\ Len(MsgOuts) = CeilDiv(Len(data), max_transfer_size)
        /\ \A i \in 1..Len(MsgOuts) : MsgOuts[i].eom <=> i = Len(MsgOuts)

\* an input one byte longer than the maximum transfer size, written in two transfers
C4_Witness ==
    /\ op = "write_raw" /\ pc = "idle" /\ result = "Ok"
    /\ Len(data) = max_transfer_size + 1
    /\ Len(MsgOuts) = 2
    /\ ~MsgOuts[1].eom /\ MsgOuts[2].eom

\* C5: a chunk for which the transport reports fewer bytes than the chunk
\* length ends write_raw with the truncated-bulk-out error: that transfer is
\* the last one, it is not repeated and no read request follows it.
C5_TruncatedStops ==
    op \in {"write_raw", "ask_raw"} =>
        \A i \in 1..Len(MsgOuts) :
            LET block == chunk_at(data, (i - 1) * max_transfer_size, max_transfer_size)
            IN  (MsgOuts[i].n >= 0 /\ MsgOuts[i].n < Len(block)) =>
                    /\ i = Len(MsgOuts)
                    /\ pc = "idle"
                    /\ result = "TruncatedBulkOut"
                    /\ ReadReqs = <<>>

\* the second of three chunks is truncated and the third is never sent
C5_Witness ==
    /\ op = "write_raw" /\ pc = "idle" /\ result = "TruncatedBulkOut"
    /\ Len(data) = 3 /\ max_transfer_size = 1
    /\ Len(MsgOuts) = 2
    /\ MsgOuts[2].n = 0

Checks == SelReq("CheckClearStatus")
Halts == Sel("clear_halt")
ClearReturned == op = "clear" /\ pc = "idle"
\* the status a logged control response carries ("Illegal" when it carries none)
LoggedStatus(e) == IF e.n < 1 THEN "Illegal" ELSE StatusOf(e.payload[1])

\* C6 as stated: after INITIATE_CLEAR succeeded, k pending answers and a
\* success answer to CHECK_CLEAR_STATUS, clear has made exactly k+1 checks,
\* cleared the halt once, after them, and returns success; and whenever clear
\* returns an error the halt-clear was never invoked.
C6_Original ==
    ClearReturned =>
        /\ (Checks # <<>> /\ LoggedStatus(Checks[Len(Checks)]) = "Success") =>
              /\ \A i \in 1..Len(Checks) - 1 : LoggedStatus(Checks[i]) = "Pending"
              /\ Len(Halts) = 1
              /\ log[Len(log)].k = "clear_halt"
              /\ result = "Ok"
        /\ result # "Ok" => Halts = <<>>

\* C6 (amended): after INITIATE_CLEAR succeeded, k pending answers and a
\* success answer, clear has made exactly k+1 checks and invoked the
\* halt-clear exactly once, as its last step, and it returns success when the
\* halt-clear call succeeds and the error of that call when it fails; on every
\* other path where clear returns an error the halt-clear is never invoked.
C6_ClearPollAndHalt ==
    ClearReturned =>
        /\ \A i \in 1..Len(Checks) :
              LoggedStatus(Checks[i]) = "Success" =>
                  /\ i = Len(Checks)
                  /\ \A j \in 1..i - 1 : LoggedStatus(Checks[j]) = "Pending"
                  /\ Len(Halts) = 1
                  /\ log[Len(log)].k = "clear_halt"
                  /\ result = IF Halts[1].req = "Ok" THEN "Ok" ELSE "Rusb"
        /\ (Checks = <<>> \/ LoggedStatus(Checks[Len(Checks)]) # "Success") =>
              /\ Halts = <<>>
              /\ result # "Ok"
        /\ Len(Halts) <= 1

\* pending twice, then success: three checks, one halt-clear, success
C6_Witness ==
    /\ ClearReturned /\ result = "Ok"
    /\ Len(Checks) = 3
    /\ LoggedStatus(Checks[1]) = "Pending" /\ LoggedStatus(Checks[2]) = "Pending"
    /\ LoggedStatus(Checks[3]) = "Success"
    /\ Len(Halts) = 1

InitiateAnswered ==
    /\ op = "clear"
    /\ log # <<>>
    /\ log[1].req = "InitiateClear"
    /\ LoggedStatus(log[1]) # "Illegal"

C8_SetTermChar ==
    [][ (op' = "set_term_char" /\ pc' = "idle" /\ pc = "idle") =>
            /\ arg' = Some(0) => result' = "InvalidTermChar"
            /\ (arg' # None /\ arg' # Some(0)) =>
                  result' = IF usbtmc_capabilities.term_char
                            THEN "Ok" ELSE "UnsupportedFeature"
            /\ arg' = None => result' = "Ok"
            /\ result' # "Ok" => term_char' = term_char
            /\ result' = "Ok" => term_char' = arg' ]_vars

\* a non-zero terminator refused for want of the capability, and the zero
\* byte refused on a device that has it
C8_Witness ==
    /\ op = "set_term_char" /\ pc = "idle"
    /\ \/ arg = Some(10) /\ ~usbtmc_capabilities.term_char /\ result = "UnsupportedFeature"
       \/ arg = Some(0) /\ usbtmc_capabilities.term_char /\ term_char = Some(10)
          /\ result = "InvalidTermChar"

\* C9: without pulse support pulse fails with unsupported-feature, issues no
\* control transfer and leaves the tag alone; with it pulse issues exactly one
\* INDICATOR_PULSE request and succeeds only on a success status.
C9_PulseGate ==
    (op = "pulse" /\ pc = "idle") =>
        IF ~usbtmc_capabilities.pulse
        THEN result = "UnsupportedFeature" /\ log = <<>> /\ b_tag = tag_before
        ELSE /\ Len(log) = 1
             /\ log[1].k = "ctrl" /\ log[1].req = "IndicatorPulse"
             /\ b_tag # tag_before
             /\ log[1].tag = b_tag
             /\ result = "Ok" <=> LoggedStatus(log[1]) = "Success"

\* pulse refused on a device without the capability
C9_Witness ==
    /\ op = "pulse" /\ pc = "idle"
    /\ ~usbtmc_capabilities.pulse
    /\ result = "UnsupportedFeature"

\* the payload a well-formed bulk-in chunk declares
ChunkPayload(e) == SubSeq(e.payload, 1, e.n)

\* C10: when the device answers the read requests with chunks c1..ck, ck the
\* first with end-of-message, read_raw makes exactly k request/response round
\* trips, none after ck, and returns the payloads of c1..ck in order, whatever
\* chunk size was requested.
C10_ReadConcatenates ==
    (op = "read_raw" /\ pc = "idle" /\ result = "Ok") =>
        /\ BulkIns # <<>>
        /\ Len(ReadReqs) = Len(BulkIns)
        /\ \A i \in 1..Len(BulkIns) : BulkIns[i].eom <=> i = Len(BulkIns)
        /\ \A i \in 1..Len(log) :
              log[i].k = IF i % 2 = 1 THEN "bulk_out" ELSE "bulk_in"
        /\ ret_val = Flatten([i \in 1..Len(BulkIns) |-> ChunkPayload(BulkIns[i])])

\* two non-empty chunks read with a requested size below the maximum
C10_Witness ==
    /\ op = "read_raw" /\ pc = "idle" /\ result = "Ok"
    /\ arg # None /\ arg[1] < max_transfer_size
    /\ Len(BulkIns) >= 2
    /\ ChunkPayload(BulkIns[1]) # <<>> /\ ChunkPayload(BulkIns[2]) # <<>>
    /\ ChunkPayload(BulkIns[1]) # ChunkPayload(BulkIns[2])

\* the block of data that the i-th bulk-out transfer of a write carries
BlockLen(i) ==
    Len(chunk_at(data, (i - 1) * max_transfer_size, max_transfer_size))

\* the write half failed: its last transfer failed or was truncated
WriteHalfFailed ==
    /\ MsgOuts # <<>>
    /\ MsgOuts[Len(MsgOuts)].n < BlockLen(Len(MsgOuts))

\* C11: ask_raw(data) issues the transfers of write_raw(data), then those of
\* read_raw with no size limit, with no control request and no other bulk
\* request between them, and returns what the read returns; when the write
\* half fails it returns that error and sends no read request.
C11_AskIsWriteThenRead ==
    (op = "ask_raw" /\ pc # "closed") =>
        LET nw == Len(MsgOuts)
        IN  /\ \A i \in 1..Len(log) :
                  /\ log[i].k # "ctrl"
                  /\ i <= nw <=> log[i].req = "DevDepMsgOut"
                  /\ i > nw =>
                        IF (i - nw) % 2 = 1
                        THEN /\ log[i].req = "RequestDevDepMsgIn"
                             /\ log[i].n \in {-1, max_transfer_size}
                        ELSE log[i].k = "bulk_in"
            /\ \A i \in 1..nw : MsgOuts[i].eom <=> i * max_transfer_size >= Len(data)
            /\ WriteHalfFailed =>
                  /\ ReadReqs = <<>>
                  /\ pc = "idle" /\ ret_val = None
                  /\ result = IF MsgOuts[nw].n < 0 THEN "Rusb" ELSE "TruncatedBulkOut"
            /\ ReadReqs # <<>> =>
                  /\ nw = CeilDiv(Len(data), max_transfer_size)
                  /\ \A i \in 1..nw : MsgOuts[i].n >= BlockLen(i)
            /\ (pc = "idle" /\ result = "Ok") =>
                  /\ BulkIns # <<>> /\ BulkIns[Len(BulkIns)].eom
                  /\ ret_val = Flatten([i \in 1..Len(BulkIns) |-> ChunkPayload(BulkIns[i])])
            /\ (pc = "idle" /\ result # "Ok" /\ ReadReqs # <<>>) =>
                  /\ ret_val = None
                  /\ LET e == log[Len(log)]
                     IN  result = IF e.k = "bulk_out" THEN "Rusb" ELSE e.req

\* a two-transfer write followed by a two-chunk read, returned whole
C11_Witness ==
    /\ op = "ask_raw" /\ pc = "idle" /\ result = "Ok"
    /\ Len(MsgOuts) = 2 /\ Len(BulkIns) = 2
    /\ ret_val # <<>>

\* the steps of read_stb other than the wait after an observation: a return
\* of false happens only at the deadline, and once the bit was observed the
\* next step is the return of true, with no status request
StbReturns ==
    /\ (pc = "read_stb" /\ pc' = "idle" /\ result' = "Ok") =>
          /\ ret_val' = <<message_available>>
          /\ ~message_available => ticks >= deadline(arg)
    /\ (pc = "read_stb" /\ message_available) =>
          /\ pc' = "idle" /\ result' = "Ok" /\ ret_val' = <<TRUE>>
          /\ log' = log /\ ticks' = ticks

\* C12: read_stb returns false if no notification byte with bit 16 set is
\* observed before the deadline, and returns true at once when one is
\* observed: after the observation it issues no further status request and
\* performs no further wait step before it returns.
C12_StbReturnsAtObservation ==
    [][ /\ StbReturns
        /\ (pc = "stb_interrupt" /\ message_available') => ticks' = ticks ]_vars

\* the part of C12 that the loop does satisfy
C12_StbReturnsModuloWait == [][StbReturns]_vars

\* the events a step appended to the log (drop of an idle session starts a
\* fresh log)
Appended == SubSeq(log', (IF pc = "idle" THEN 0 ELSE Len(log)) + 1, Len(log'))

\* the calls teardown owes: release, the restore of a saved configuration,
\* one reattach per recorded interface
TeardownCalls ==
    <<<<"release_interface", 0>>>>
    \o (IF restore_config # None
        THEN <<<<"set_active_configuration", restore_config[1]>>>> ELSE <<>>)
    \o [j \in 1..Len(reattach_kernel_driver) |->
            <<"attach_kernel_driver", reattach_kernel_driver[j]>>]

\* C13: teardown runs exactly once for every session object, also for one
\* whose connect failed after the device was opened; it attempts release,
\* restore of a saved configuration and reattach of every recorded interface,
\* in that order, whatever the outcome of each call, and surfaces no error.
C13_TeardownOnceAllSteps ==
    /\ [](/\ pc \in {"idle", "drop"} => ENABLED Drop
          /\ (op = "connect" /\ result \notin {"running", "Ok"}) =>
                 pc \in {"drop", "closed", "no_session"}
          /\ pc = "no_session" =>
                 (Len(log) = 1 /\ log[1].k = "open" /\ log[1].req # "Ok")
          /\ pc = "drop" => \A e \in {log[i] : i \in 1..Len(log)} :
                 e.k \notin {"release_interface", "attach_kernel_driver"})
    /\ [][ /\ pc = "closed" => UNCHANGED vars
           /\ pc = "drop" => pc' = "closed"
           /\ (pc # "closed" /\ pc' = "closed") =>
                 /\ [k \in 1..Len(Appended) |-> <<Appended[k].k, Appended[k].n>>]
                        = TeardownCalls
                 /\ pc = "drop" => result' = result ]_vars

\* the teardown of a failed connect in which release, the restore and the
\* first reattach all failed and the second reattach was still made
C13_Witness ==
    /\ pc = "closed" /\ op = "connect" /\ result = "Rusb"
    /\ \E i \in 1..Len(log) - 3 :
          /\ log[i].k = "release_interface" /\ log[i].req = "Rusb"
          /\ log[i + 1].k = "set_active_configuration" /\ log[i + 1].req = "Rusb"
          /\ log[i + 2].k = "attach_kernel_driver" /\ log[i + 2].req = "Rusb"
          /\ log[i + 3].k = "attach_kernel_driver" /\ log[i + 3].req = "Ok"

\* positions in the log of the events of one kind with one outcome
Positions(k, r) == {i \in 1..Len(log) : log[i].k = k /\ log[i].req = r}

\* connect is past Get Capabilities
PastCapabilities ==
    pc \in {"connect_idn", "write_raw", "write_chunk", "read_req", "read_resp", "idle"}

\* the last transfer of the identification query failed
IdnFailed ==
    LET e == log[Len(log)]
    IN  \/ e.k = "bulk_out" /\ e.n < (IF e.req = "DevDepMsgOut" THEN Len(IDN) ELSE 0)
        \/ e.k = "bulk_in" /\ e.req # "Ok"

\* C14: connect claims the interface, then runs Clear, then Get Capabilities,
\* in that order, and fails when any of the three fails; it sends "*IDN?" only
\* when the USB488 set is present and reports SCPI; a failure of that query
\* does not fail connect, which returns a session without identification.
C14_ConnectOrder ==
    (op = "connect" /\ pc # "closed") =>
        /\ \A i \in Positions("ctrl", "InitiateClear") :
              \E j \in Positions("claim_interface", "Ok") : j < i
        /\ \A i \in Positions("ctrl", "GetCapabilities") :
              \E j \in Positions("clear_halt", "Ok") :
                 /\ j < i
                 /\ \E h \in Positions("ctrl", "InitiateClear") : h < j
        /\ PastCapabilities =>
              /\ Positions("claim_interface", "Ok") # {}
              /\ Positions("clear_halt", "Ok") # {}
              /\ Positions("ctrl", "GetCapabilities") # {}
              /\ USBTMCCapabilities_parse(dev.capabilities).err = "Ok"
              /\ usbtmc_capabilities = USBTMCCapabilities_parse(dev.capabilities).caps
              /\ dev.interface_protocol = 1 =>
                    /\ USB488Capabilities_parse(dev.capabilities).err = "Ok"
                    /\ usb488_capabilities = USB488Capabilities_parse(dev.capabilities).caps
        /\ \A i \in 1..Len(log) : log[i].k \in {"bulk_out", "bulk_in"} =>
              /\ usb488_capabilities # None /\ usb488_capabilities[1].scpi
              /\ \E j \in Positions("ctrl", "GetCapabilities") : j < i
              /\ log[i].req = "DevDepMsgOut" => log[i].payload = IDN
        /\ pc = "idle" =>
              /\ result = "Ok"
              /\ IdnFailed => scpi_id = None
              /\ scpi_id # None =>
                    /\ BulkIns # <<>> /\ BulkIns[Len(BulkIns)].eom
                    /\ scpi_id = Some(Trim(Flatten([i \in 1..Len(BulkIns) |->
                                                      ChunkPayload(BulkIns[i])])))

\* connect succeeded although the read half of "*IDN?" failed
C14_Witness ==
    /\ op = "connect" /\ pc = "idle" /\ result = "Ok"
    /\ Len(MsgOuts) = 1 /\ MsgOuts[1].payload = IDN
    /\ BulkIns # <<>> /\ BulkIns[Len(BulkIns)].req # "Ok"
    /\ scpi_id = None

\* the status a logged CHECK_CLEAR_STATUS answer carries is pending
AnsweredPending(e) == e.n >= 0 /\ LoggedStatus(e) = "Pending"

\* C15: the poll loop of clear has no iteration bound: while the device
\* answers pending and no transfer fails, the next thing clear does is another
\* CHECK_CLEAR_STATUS, however many were made; the first answer that is not
\* pending ends the polling, and clear then returns.
C15_ClearPollsUntilAnswer ==
    /\ [](/\ pc = "clear_poll" =>
                /\ \A i \in 1..Len(Checks) : AnsweredPending(Checks[i])
                /\ ENABLED clear_poll
                /\ ~ENABLED clear_halt /\ ~ENABLED Drop
          /\ \A i \in 1..Len(Checks) - 1 : AnsweredPending(Checks[i])
          /\ (pc \in {"clear_halt", "idle"} /\ op = "clear" /\ Checks # <<>>) =>
                ~AnsweredPending(Checks[Len(Checks)]))
    /\ [][pc = "clear_poll" =>
             /\ Len(SelReq("CheckClearStatus"))' = Len(SelReq("CheckClearStatus")) + 1
             /\ pc' \in {"clear_poll", "clear_halt", "idle", "drop"}]_vars
    /\ (pc = "clear_poll") ~> (pc \in {"idle", "drop", "connect_caps"})

\* clear is about to poll again after as many pending answers as the model
\* lets the device give
C15_Witness ==
    /\ op = "clear" /\ pc = "clear_poll"
    /\ Len(Checks) = MaxPending
    /\ \A i \in 1..Len(Checks) : AnsweredPending(Checks[i])

\* the length of the buffer of a logged DevDepMsgOut transfer: header, payload
\* and alignment padding
OutBufLen(e) == HEADER_SIZE + Len(e.payload) + Pad4(Len(e.payload))

\* C16: write_raw has no silent partial success: a bulk-out transfer for which
\* the transport reported fewer bytes than the whole buffer (header, payload
\* and padding) is the last one and makes write_raw fail, so a successful
\* write_raw wrote every buffer whole.
C16_NoSilentPartialWrite ==
    (op = "write_raw" /\ pc # "closed") =>
        \A i \in 1..Len(MsgOuts) :
            MsgOuts[i].n < OutBufLen(MsgOuts[i]) =>
                /\ i = Len(MsgOuts)
                /\ pc = "idle"
                /\ result \in {"Rusb", "TruncatedBulkOut"}

\* the interfaces whose driver connect detached, in the order of the calls
Detached ==
    LET es == SelectSeq(log, LAMBDA e : e.k = "detach_kernel_driver" /\ e.req = "Ok")
    IN  [j \in 1..Len(es) |-> es[j].n]

\* C17: during and after connect the reattach list holds exactly the
\* interfaces whose driver connect detached, each once, also when a detach or
\* the configuration switch failed; a configuration to restore is saved only
\* when the active configuration differed from the target; teardown reattaches
\* a driver only to an interface connect detached.
C17_ReattachOnlyDetached ==
    op = "connect" =>
        /\ pc # "closed" =>
              /\ reattach_kernel_driver = Detached
              /\ \A i, j \in 1..Len(Detached) : Detached[i] = Detached[j] => i = j
              /\ restore_config # None =>
                    (restore_config = Some(old_config) /\ old_config # dev.target_config)
        /\ \A i \in 1..Len(log) :
              /\ log[i].k = "attach_kernel_driver" =>
                    \E j \in 1..Len(Detached) : Detached[j] = log[i].n
              /\ (log[i].k = "set_active_configuration" /\ log[i].n = old_config) =>
                    old_config # dev.target_config

\* a logged transfer of read_raw failed: the request was not sent, the bulk-in
\* read failed, or the header of the answer did not decode
ReadStepFailed(e) ==
    \/ e.k = "bulk_out" /\ e.n < 0
    \/ e.k = "bulk_in" /\ e.req # "Ok"

\* the error such a transfer yields
ReadStepError(e) == IF e.k = "bulk_out" THEN "Rusb" ELSE e.req

\* C18: when the read request, the bulk-in read or the header decoding of an
\* iteration of read_raw fails, read_raw returns that error at once: it sends
\* no further read request and returns none of the payload gathered so far.
C18_ReadErrorsReturnAtOnce ==
    (op = "read_raw" /\ pc # "closed") =>
        /\ \A i \in 1..Len(log) : ReadStepFailed(log[i]) =>
              /\ i = Len(log)
              /\ pc = "idle"
              /\ result = ReadStepError(log[i])
              /\ ret_val = None
        /\ (pc = "idle" /\ result # "Ok") => ReadStepFailed(log[Len(log)])

\* the second answer fails to decode after a first chunk with payload
C18_Witness ==
    /\ op = "read_raw" /\ pc = "idle"
    /\ Len(BulkIns) = 2 /\ Len(ReadReqs) = 2
    /\ BulkIns[1].req = "Ok" /\ ChunkPayload(BulkIns[1]) # <<>>
    /\ BulkIns[2].req = "TagCheckFailure"
    /\ result = "TagCheckFailure" /\ ret_val = None

\* C19: read_raw appends the payload of a chunk only when the tag in the
\* inbound header equals the tag of the read request just sent: an answer
\* that is well formed but carries another (stale) tag is rejected, so every
\* chunk of a successful read_raw carries the tag of its request.
C19_ResponseTagMatchesRequest ==
    (op = "read_raw" /\ pc # "closed") =>
        \A i \in 1..Len(BulkIns) :
            (BulkIns[i].n >= 0 /\ BulkIns[i].tag # ReadReqs[i].tag) =>
                /\ BulkIns[i].req # "Ok"
                /\ pc = "idle" /\ result # "Ok"

\* C20: whatever value set_max_transfer_size accepted (every u32, 0 included),
\* a later write_raw returns success or a typed error on every input: it never
\* aborts without returning a result.
C20_WriteNeverAborts ==
    op = "write_raw" => result \in {"running", "Ok", "Rusb", "TruncatedBulkOut"}

====
